---- MODULE Spec2Model ----
(***************************************************************************)
(* The stock-quote resolution pipeline of EngineRoom:                      *)
(*   api/stock_quote.py         get_stock_price (the GET /stock_quote/     *)
(*                              handler, Alpha Vantage GLOBAL_QUOTE) and   *)
(*                              get_intraday_price_tiingo_or_yfinance_async*)
(*   api/stock_quote_tiingo.py  get_intraday_price_tiingo_or_yfinance,     *)
(*                              get_delayed_price_tiingo_intraday and      *)
(*                              get_approximate_delayed_price_yfinance     *)
(* Each request is a coroutine on the event loop; the fallback runs in a   *)
(* thread of the loop's default executor.  Time is in minutes of the       *)
(* trading day, US/Eastern.                                                *)
(***************************************************************************)
EXTENDS Integers, Sequences, FiniteSets, TLC

VARIABLES
    clock,          \* wall clock, minutes since midnight US/Eastern
    alphaKey,       \* os.getenv("ALPHA_VANTAGE_API_KEY") is set
    tiingoKey,      \* os.getenv("TIINGO_API_KEY") is set
    pc,             \* where each request is
    ticker,         \* get_stock_price: ticker
    data,           \* get_stock_price: what the Alpha Vantage call gave
    price,          \* get_stock_price: price   (from the fallback)
    source,         \* get_stock_price: source  (from the fallback)
    timestamp,      \* get_stock_price: timestamp (from the fallback)
    latest_price,   \* get_stock_price: latest_price
    status,         \* HTTP status of the reply, 0 while there is none
    detail,         \* HTTPException detail of an error reply
    started,        \* get_approximate_delayed_price_yfinance: now_eastern as
                    \* first read, when the call starts
    now_eastern,    \* get_approximate_delayed_price_yfinance: now_eastern
    target_time,    \* get_approximate_delayed_price_yfinance: target_time
    history,        \* get_approximate_delayed_price_yfinance: data (1m series)
    calls           \* the provider calls each request has made, with results

vars == <<clock, alphaKey, tiingoKey, pc, ticker, data, price, source,
          timestamp, latest_price, status, detail, started,
          now_eastern,
          target_time, history, calls>>

(***************************************************************************)
(* Bounds of the model.                                                    *)
(***************************************************************************)
NumRequests == 2        \* requests the service receives
MaxWorkers == 1         \* threads of the event loop's default executor
MaxTicks == 3           \* minutes the clock advances

(***************************************************************************)
(* Program constants.                                                      *)
(***************************************************************************)
DelayMinutes == 15
MarketOpenMinute == 570     \* 09:30

Requests == 1 .. NumRequests
Threshold == MarketOpenMinute + DelayMinutes
FirstMinute == Threshold - 2
LastMinute == FirstMinute + MaxTicks
NoTime == 0 - 1

(***************************************************************************)
(* Python values: None, str, float; a dict key that is absent.             *)
(***************************************************************************)
NoneV == [t |-> "None", v |-> ""]
Missing == [t |-> "missing", v |-> ""]
Unset == [t |-> "unset", v |-> ""]
Str(s) == [t |-> "str", v |-> s]
Float(s) == [t |-> "float", v |-> s]    \* v is repr() of the float
Raise(e) == [t |-> "raise", v |-> e]

\* The strings float() parses, with the repr of the float they denote.
FloatRepr ==
    [s \in {"312.50", "312.5", "nan"} |->
        CASE s = "312.50" -> "312.5"
          [] s = "312.5" -> "312.5"
          [] s = "nan" -> "nan"]

\* float(x)
PyFloat(x) ==
    CASE x.t = "float" -> x
      [] x.t = "str" -> IF x.v \in DOMAIN FloatRepr
                        THEN Float(FloatRepr[x.v])
                        ELSE Raise("ValueError")
      [] OTHER -> Raise("TypeError")

\* str(x) of a float
PyStr(x) == Str(x.v)

\* str.lower() on the ticker strings of the model
Lower(s) ==
    CASE s = "AAPL" -> "aapl"
      [] s = "MSFT" -> "msft"
      [] OTHER -> s

Pad2(n) == IF n < 10 THEN "0" \o ToString(n) ELSE ToString(n)

\* closest_timestamp.strftime('%Y-%m-%d %H:%M:%S %Z'), the date left out
Strftime(m) == Str(Pad2(m \div 60) \o ":" \o Pad2(m % 60) \o ":00 EDT")

(***************************************************************************)
(* What the three upstream providers can answer.                           *)
(***************************************************************************)
Tickers == {"AAPL", "msft"}

\* Alpha Vantage GLOBAL_QUOTE: the call fails (client.get raises,
\* raise_for_status raises, response.json raises), the JSON has a shape the
\* handler does not expect, it has no "Global Quote", or it has one with
\* "01. symbol" and "05. price".
PrimaryFailures == {"transport_error", "http_error", "bad_json", "bad_shape"}

PriceFields ==
    {Missing, NoneV, Str("N/A"), Str("312.50"), Str(""), Str("abc"),
     Float("312.5")}

NoData == [kind |-> "none", symbol |-> "", price |-> Missing]

PrimaryResponses ==
    {[kind |-> k, symbol |-> "", price |-> Missing] :
        k \in PrimaryFailures \cup {"no_global_quote"}}
    \cup {[kind |-> "quote", symbol |-> s, price |-> p] :
            s \in {"AAPL", "MSFT"}, p \in PriceFields}

\* Tiingo IEX: the call fails, the JSON is empty or no list, or it is a list
\* whose first item has "ticker", "last" and "timestamp".
TiingoFailures == {"transport_error", "http_error", "bad_json"}

TiingoResponses ==
    {[kind |-> k, ticker |-> Missing, last |-> Missing, timestamp |-> Missing] :
        k \in TiingoFailures \cup {"empty", "not_list"}}
    \cup {[kind |-> "list", ticker |-> tk, last |-> l, timestamp |-> ts] :
            tk \in {Missing, NoneV, Str("AAPL"), Str("aapl"), Str("MSFT")},
            l \in {Missing, NoneV, Str("N/A"), Str("312.50"), Float("312.5"),
                   Float("nan")},
            ts \in {Missing, Str("2026-11-02T14:45:00+00:00")}}

\* yfinance Ticker.history(interval="1m"): it raises, the frame is empty, or
\* it is a series of Close values indexed by minute.
SampleTimes == {MarketOpenMinute - 1, MarketOpenMinute + 1}
Closes == {Float("101.5"), Float("99.25"), Float("nan")}
EmptySeries == [m \in {} |-> NoneV]
SeriesSet == UNION {[S -> Closes] : S \in (SUBSET SampleTimes) \ {{}}}

YfResponses ==
    {[kind |-> k, series |-> EmptySeries] : k \in {"exception", "empty"}}
    \cup {[kind |-> "series", series |-> s] : s \in SeriesSet}

(***************************************************************************)
(* The pure parts of the code.                                             *)
(***************************************************************************)
\* data["Global Quote"].get("05. price", "N/A")
GlobalQuotePrice(resp) ==
    IF resp.price = Missing THEN Str("N/A") ELSE resp.price

\* mutants of NeedsFallback: a falsy test, and a test that forgets None
NeedsFallback_Falsy(lp) == lp \in {NoneV, Str("N/A"), Str("")}

NeedsFallback_OnlyNA(lp) == lp = Str("N/A")

\* latest_price in [None, "N/A"]
NeedsFallback(lp) == lp \in {NoneV, Str("N/A")}

\* get_delayed_price_tiingo_intraday: <<price, timestamp>>
get_delayed_price_tiingo_intraday(symbol, resp) ==
    IF resp.kind # "list" THEN <<NoneV, NoneV>>
    ELSE IF resp.ticker = Missing THEN <<NoneV, NoneV>>
    ELSE IF resp.ticker.t # "str" THEN <<NoneV, NoneV>>
    ELSE IF Lower(resp.ticker.v) # Lower(symbol) THEN <<NoneV, NoneV>>
    ELSE IF resp.last = Missing THEN <<NoneV, NoneV>>
    ELSE IF PyFloat(resp.last).t = "raise" THEN <<NoneV, NoneV>>
    ELSE IF resp.timestamp = Missing THEN <<NoneV, NoneV>>
    ELSE <<PyFloat(resp.last), resp.timestamp>>

\* mutant of available_times: the index is compared with now, not with
\* now - delay
available_times_NoDelay(series, target) ==
    {m \in DOMAIN series : m <= target + DelayMinutes}

\* data.index[data.index <= target_time]
available_times(series, target) == {m \in DOMAIN series : m <= target}

\* mutant of closest_timestamp: available_times.min()
closest_timestamp_Earliest(series, target) ==
    CHOOSE m \in available_times(series, target) :
        \A n \in available_times(series, target) : m <= n

\* available_times.max()
closest_timestamp(series, target) ==
    CHOOSE m \in available_times(series, target) :
        \A n \in available_times(series, target) : n <= m

\* steps 7 and 8 of get_approximate_delayed_price_yfinance: <<price, timestamp>>
SelectSample(series, target) ==
    IF available_times(series, target) = {} THEN <<NoneV, NoneV>>
    ELSE <<PyFloat(series[closest_timestamp(series, target)]),
           Strftime(closest_timestamp(series, target))>>

\* mutant of FormatPrice: str(price) without the test for None
FormatPrice_NoNoneCheck(p) == IF p # NoneV THEN PyStr(p) ELSE Str("None")

\* str(price) if price is not None else "N/A"
FormatPrice(p) == IF p # NoneV THEN PyStr(p) ELSE Str("N/A")

(***************************************************************************)
(* State.                                                                  *)
(***************************************************************************)
ThreadPcs == {"tiingo_call", "yf_start", "yf_sleep", "yf_fetch", "yf_select"}

\* the executor threads that are running a fallback
Busy == {r \in Requests : pc[r] \in ThreadPcs}

\* One provider call: which provider, what it answered, and the price the
\* code took from the answer (None when it took none).
Call(provider, raw, result) ==
    [provider |-> provider, raw |-> raw, result |-> result]

Init ==
    /\ clock = FirstMinute
    /\ alphaKey \in BOOLEAN
    /\ tiingoKey \in BOOLEAN
    /\ pc = [r \in Requests |-> "idle"]
    /\ ticker = [r \in Requests |-> ""]
    /\ data = [r \in Requests |-> NoData]
    /\ price = [r \in Requests |-> Unset]
    /\ source = [r \in Requests |-> "unset"]
    /\ timestamp = [r \in Requests |-> Unset]
    /\ latest_price = [r \in Requests |-> Unset]
    /\ status = [r \in Requests |-> 0]
    /\ detail = [r \in Requests |-> ""]
    /\ started = [r \in Requests |-> NoTime]
    /\ now_eastern = [r \in Requests |-> NoTime]
    /\ target_time = [r \in Requests |-> NoTime]
    /\ history = [r \in Requests |-> EmptySeries]
    /\ calls = [r \in Requests |-> <<>>]

(***************************************************************************)
(* get_stock_price, up to the await of the Alpha Vantage call.  Without    *)
(* the Alpha Vantage key it raises HTTPException(500, "API key not found").*)
(***************************************************************************)
Arrive(r, t) ==
    /\ pc[r] = "idle"
    /\ ticker' = [ticker EXCEPT ![r] = t]
    /\ IF alphaKey
       THEN /\ pc' = [pc EXCEPT ![r] = "primary_call"]
            /\ UNCHANGED <<status, detail>>
       ELSE /\ pc' = [pc EXCEPT ![r] = "done"]
            /\ status' = [status EXCEPT ![r] = 500]
            /\ detail' = [detail EXCEPT ![r] = "API key not found"]
    /\ UNCHANGED <<clock, alphaKey, tiingoKey, data, price, source, timestamp,
                   latest_price, started, now_eastern, target_time, history,
                   calls>>

(***************************************************************************)
(* get_stock_price from the answer of Alpha Vantage to its return or to    *)
(* the await of run_in_executor in                                         *)
(* get_intraday_price_tiingo_or_yfinance_async.  Anything raised before    *)
(* the return becomes HTTPException(500, "Internal server error: ...").    *)
(***************************************************************************)
PrimaryResult(resp) ==
    IF resp.kind = "quote" /\ ~NeedsFallback(GlobalQuotePrice(resp))
    THEN GlobalQuotePrice(resp)
    ELSE NoneV

PrimaryRespond(r, resp) ==
    /\ pc[r] = "primary_call"
    /\ data' = [data EXCEPT ![r] = resp]
    /\ calls' = [calls EXCEPT
                    ![r] = Append(@, Call("AlphaVantage", resp,
                                        PrimaryResult(resp)))]
    /\ CASE resp.kind \in PrimaryFailures ->
                /\ pc' = [pc EXCEPT ![r] = "done"]
                /\ status' = [status EXCEPT ![r] = 500]
                /\ detail' = [detail EXCEPT ![r] = "Internal server error"]
                /\ UNCHANGED latest_price
         [] resp.kind = "no_global_quote" ->
                /\ pc' = [pc EXCEPT ![r] = "queued"]
                /\ UNCHANGED <<status, detail, latest_price>>
         [] resp.kind = "quote" ->
                /\ latest_price' =
                        [latest_price EXCEPT ![r] = GlobalQuotePrice(resp)]
                /\ IF NeedsFallback(GlobalQuotePrice(resp))
                   THEN /\ pc' = [pc EXCEPT ![r] = "queued"]
                        /\ UNCHANGED <<status, detail>>
                   ELSE /\ pc' = [pc EXCEPT ![r] = "done"]
                        /\ status' = [status EXCEPT ![r] = 200]
                        /\ UNCHANGED detail
    /\ UNCHANGED <<clock, alphaKey, tiingoKey, ticker, price, source,
                   timestamp, started, now_eastern, target_time, history>>

\* mutant of WorkerStart: the Tiingo attempt is made without a Tiingo key
WorkerStart_AlwaysTiingo(r) ==
    /\ pc[r] = "queued"
    /\ Cardinality({q \in Requests : pc[q] \in
            {"tiingo_call", "yf_start", "yf_sleep", "yf_fetch", "yf_select"}})
            < MaxWorkers
    /\ pc' = [pc EXCEPT ![r] = "tiingo_call"]
    /\ UNCHANGED <<clock, alphaKey, tiingoKey, ticker, data, price, source,
                   timestamp, latest_price, status, detail, started,
                   now_eastern,
                   target_time, history, calls>>

(***************************************************************************)
(* loop.run_in_executor(None, ...): the work starts when a thread of the   *)
(* default executor is free.  With the Tiingo key the thread runs          *)
(* get_intraday_price_tiingo_or_yfinance, without it                       *)
(* get_approximate_delayed_price_yfinance alone.                           *)
(***************************************************************************)
WorkerStart(r) ==
    /\ pc[r] = "queued"
    /\ Cardinality(Busy) < MaxWorkers
    /\ pc' = [pc EXCEPT ![r] = IF tiingoKey THEN "tiingo_call" ELSE "yf_start"]
    /\ UNCHANGED <<clock, alphaKey, tiingoKey, ticker, data, price, source,
                   timestamp, latest_price, status, detail, started,
                   now_eastern,
                   target_time, history, calls>>

\* The thread's work returns <<price, source, timestamp>> to the coroutine.
Return(r, p, s, ts) ==
    /\ pc' = [pc EXCEPT ![r] = "returned"]
    /\ price' = [price EXCEPT ![r] = p]
    /\ source' = [source EXCEPT ![r] = s]
    /\ timestamp' = [timestamp EXCEPT ![r] = ts]

\* mutant of TiingoRespond: yfinance is tried whatever Tiingo returned
TiingoRespond_NoShortCircuit(r, resp) ==
    /\ pc[r] = "tiingo_call"
    /\ calls' = [calls EXCEPT
                    ![r] = Append(@, Call("Tiingo", resp,
                        get_delayed_price_tiingo_intraday(ticker[r], resp)[1]))]
    /\ pc' = [pc EXCEPT ![r] = "yf_start"]
    /\ UNCHANGED <<clock, alphaKey, tiingoKey, ticker, data, price, source,
                   timestamp, latest_price, status, detail, started,
                   now_eastern,
                   target_time, history>>

(***************************************************************************)
(* get_intraday_price_tiingo_or_yfinance: the Tiingo attempt.              *)
(***************************************************************************)
TiingoRespond(r, resp) ==
    /\ pc[r] = "tiingo_call"
    /\ LET res == get_delayed_price_tiingo_intraday(ticker[r], resp)
       IN /\ calls' = [calls EXCEPT ![r] = Append(@, Call("Tiingo", resp, res[1]))]
          /\ IF res[1] # NoneV
             THEN Return(r, res[1], "Tiingo", res[2])
             ELSE /\ pc' = [pc EXCEPT ![r] = "yf_start"]
                  /\ UNCHANGED <<price, source, timestamp>>
    /\ UNCHANGED <<clock, alphaKey, tiingoKey, ticker, data, latest_price,
                   status, detail, started, now_eastern, target_time, history>>

\* mutant of YfStart: the wait is until market open, without the delay
YfStart_UntilOpenOnly(r) ==
    /\ pc[r] = "yf_start"
    /\ started' = [started EXCEPT ![r] = clock]
    /\ now_eastern' = [now_eastern EXCEPT ![r] = clock]
    /\ target_time' = [target_time EXCEPT ![r] = clock - DelayMinutes]
    /\ pc' = [pc EXCEPT
                ![r] = IF clock < MarketOpenMinute
                       THEN "yf_sleep" ELSE "yf_fetch"]
    /\ UNCHANGED <<clock, alphaKey, tiingoKey, ticker, data, price, source,
                   timestamp, latest_price, status, detail, history, calls>>

(***************************************************************************)
(* get_approximate_delayed_price_yfinance, steps 1 to 4: read the clock,   *)
(* and sleep when it is before market open plus the delay.                 *)
(***************************************************************************)
YfStart(r) ==
    /\ pc[r] = "yf_start"
    /\ started' = [started EXCEPT ![r] = clock]
    /\ now_eastern' = [now_eastern EXCEPT ![r] = clock]
    /\ target_time' = [target_time EXCEPT ![r] = clock - DelayMinutes]
    /\ pc' = [pc EXCEPT
                ![r] = IF clock < MarketOpenMinute + DelayMinutes
                       THEN "yf_sleep" ELSE "yf_fetch"]
    /\ UNCHANGED <<clock, alphaKey, tiingoKey, ticker, data, price, source,
                   timestamp, latest_price, status, detail, history, calls>>

\* time.sleep(wait_seconds) returns; now_eastern and target_time are read again.
YfWake(r) ==
    /\ pc[r] = "yf_sleep"
    /\ clock >= MarketOpenMinute + DelayMinutes
    /\ UNCHANGED started
    /\ now_eastern' = [now_eastern EXCEPT ![r] = clock]
    /\ target_time' = [target_time EXCEPT ![r] = clock - DelayMinutes]
    /\ pc' = [pc EXCEPT ![r] = "yf_fetch"]
    /\ UNCHANGED <<clock, alphaKey, tiingoKey, ticker, data, price, source,
                   timestamp, latest_price, status, detail, history, calls>>

\* What the thread's work returns when yfinance gave <<p, ts>>.
YfReturn(r, raw, p, ts) ==
    /\ calls' = [calls EXCEPT ![r] = Append(@, Call("yfinance", raw, p))]
    /\ IF tiingoKey /\ p = NoneV
       THEN Return(r, NoneV, "None", NoneV)
       ELSE Return(r, p, "yfinance", ts)

\* step 5: ticker.history(interval="1m", period="2d")
YfFetch(r, resp) ==
    /\ pc[r] = "yf_fetch"
    /\ IF resp.kind = "series"
       THEN /\ history' = [history EXCEPT ![r] = resp.series]
            /\ pc' = [pc EXCEPT ![r] = "yf_select"]
            /\ UNCHANGED <<price, source, timestamp, calls>>
       ELSE /\ YfReturn(r, resp, NoneV, NoneV)
            /\ UNCHANGED history
    /\ UNCHANGED <<clock, alphaKey, tiingoKey, ticker, data, latest_price,
                   status, detail, started, now_eastern, target_time>>

\* mutant of YfSelect: the target is computed from the clock at selection
YfSelect_RereadClock(r) ==
    /\ pc[r] = "yf_select"
    /\ YfReturn(r, [kind |-> "series", series |-> history[r]],
                SelectSample(history[r], clock - DelayMinutes)[1],
                SelectSample(history[r], clock - DelayMinutes)[2])
    /\ UNCHANGED <<clock, alphaKey, tiingoKey, ticker, data, latest_price,
                   status, detail, started, now_eastern, target_time, history>>

\* steps 6 to 8
YfSelect(r) ==
    /\ pc[r] = "yf_select"
    /\ YfReturn(r, [kind |-> "series", series |-> history[r]],
                SelectSample(history[r], target_time[r])[1],
                SelectSample(history[r], target_time[r])[2])
    /\ UNCHANGED <<clock, alphaKey, tiingoKey, ticker, data, latest_price,
                   status, detail, started, now_eastern, target_time, history>>

(***************************************************************************)
(* get_stock_price after the fallback: format the price and return.        *)
(***************************************************************************)
Resume(r) ==
    /\ pc[r] = "returned"
    /\ latest_price' = [latest_price EXCEPT ![r] = FormatPrice(price[r])]
    /\ status' = [status EXCEPT ![r] = 200]
    /\ pc' = [pc EXCEPT ![r] = "done"]
    /\ UNCHANGED <<clock, alphaKey, tiingoKey, ticker, data, price, source,
                   timestamp, detail, started, now_eastern, target_time, history,
                   calls>>

\* The reply is sent and the request's frames are gone.
Reply(r) ==
    /\ pc[r] = "done"
    /\ pc' = [pc EXCEPT ![r] = "idle"]
    /\ ticker' = [ticker EXCEPT ![r] = ""]
    /\ data' = [data EXCEPT ![r] = NoData]
    /\ price' = [price EXCEPT ![r] = Unset]
    /\ source' = [source EXCEPT ![r] = "unset"]
    /\ timestamp' = [timestamp EXCEPT ![r] = Unset]
    /\ latest_price' = [latest_price EXCEPT ![r] = Unset]
    /\ status' = [status EXCEPT ![r] = 0]
    /\ detail' = [detail EXCEPT ![r] = ""]
    /\ started' = [started EXCEPT ![r] = NoTime]
    /\ now_eastern' = [now_eastern EXCEPT ![r] = NoTime]
    /\ target_time' = [target_time EXCEPT ![r] = NoTime]
    /\ history' = [history EXCEPT ![r] = EmptySeries]
    /\ calls' = [calls EXCEPT ![r] = <<>>]
    /\ UNCHANGED <<clock, alphaKey, tiingoKey>>

\* A minute passes.
Tick ==
    /\ clock < LastMinute
    /\ clock' = clock + 1
    /\ UNCHANGED <<alphaKey, tiingoKey, pc, ticker, data, price, source,
                   timestamp, latest_price, status, detail, started,
                   now_eastern,
                   target_time, history, calls>>

(***************************************************************************)
(* Spec: the requests come one after the other, each with every answer the *)
(* providers can give.                                                     *)
(***************************************************************************)
ArriveAlone(r, t) ==
    /\ \A q \in Requests : pc[q] = "idle"
    /\ Arrive(r, t)

Next ==
    \/ \E r \in Requests, t \in Tickers : ArriveAlone(r, t)
    \/ \E r \in Requests, resp \in PrimaryResponses : PrimaryRespond(r, resp)
    \/ \E r \in Requests : WorkerStart(r)
    \/ \E r \in Requests, resp \in TiingoResponses : TiingoRespond(r, resp)
    \/ \E r \in Requests : YfStart(r)
    \/ \E r \in Requests : YfWake(r)
    \/ \E r \in Requests, resp \in YfResponses : YfFetch(r, resp)
    \/ \E r \in Requests : YfSelect(r)
    \/ \E r \in Requests : Resume(r)
    \/ \E r \in Requests : Reply(r)
    \/ Tick

Spec == Init /\ [][Next]_vars

(***************************************************************************)
(* SpecConc: the requests overlap; each provider gives one answer of each  *)
(* kind the chain tells apart (a usable price, or none).                   *)
(***************************************************************************)
ConcPrimaryResponses ==
    {[kind |-> "no_global_quote", symbol |-> "", price |-> Missing],
     [kind |-> "quote", symbol |-> "AAPL", price |-> Str("312.50")]}

ConcTiingoResponses ==
    {[kind |-> "http_error", ticker |-> Missing, last |-> Missing,
      timestamp |-> Missing],
     [kind |-> "list", ticker |-> Str("AAPL"), last |-> Float("312.5"),
      timestamp |-> Str("2026-11-02T14:45:00+00:00")]}

ConcYfResponses ==
    {[kind |-> "empty", series |-> EmptySeries],
     [kind |-> "series",
      series |-> [m \in SampleTimes |-> Float("101.5")]]}

NextConc ==
    \/ \E r \in Requests, t \in Tickers : Arrive(r, t)
    \/ \E r \in Requests, resp \in ConcPrimaryResponses : PrimaryRespond(r, resp)
    \/ \E r \in Requests : WorkerStart(r)
    \/ \E r \in Requests, resp \in ConcTiingoResponses : TiingoRespond(r, resp)
    \/ \E r \in Requests : YfStart(r)
    \/ \E r \in Requests : YfWake(r)
    \/ \E r \in Requests, resp \in ConcYfResponses : YfFetch(r, resp)
    \/ \E r \in Requests : YfSelect(r)
    \/ \E r \in Requests : Resume(r)
    \/ \E r \in Requests : Reply(r)
    \/ Tick

SpecConc == Init /\ [][NextConc]_vars

(***************************************************************************)
(* Properties.                                                             *)
(***************************************************************************)
Done(r) == pc[r] = "done"

\* The providers a request has called, in order.
Called(r) == [i \in 1 .. Len(calls[r]) |-> calls[r][i].provider]

\* The Alpha Vantage answer has a "05. price" that is neither null nor "N/A".
PrimaryHasPrice(r) ==
    /\ data[r].kind = "quote"
    /\ data[r].price \notin {Missing, NoneV, Str("N/A")}

\* The Alpha Vantage call succeeded and gave no usable price.
PrimaryHasNoPrice(r) ==
    \/ data[r].kind = "no_global_quote"
    \/ data[r].kind = "quote" /\ data[r].price \in {Missing, NoneV, Str("N/A")}

\* C1: once Alpha Vantage has answered with a price field that is neither
\* null nor "N/A", the request is answered 200 with exactly that field as
\* latest_price, and the only provider it has called is Alpha Vantage:
\* neither Tiingo nor yfinance is called at any point of the resolution.
C1_PrimaryPriceReturned ==
    \A r \in Requests :
        PrimaryHasPrice(r) =>
            /\ Done(r)
            /\ status[r] = 200
            /\ latest_price[r] = data[r].price
            /\ Called(r) = <<"AlphaVantage">>

C1_Witness ==
    \E r \in Requests :
        /\ Done(r)
        /\ ticker[r] = "msft"
        /\ data[r].kind = "quote"
        /\ data[r].price = Str("312.50")
        /\ latest_price[r] = Str("312.50")
        /\ Called(r) = <<"AlphaVantage">>

\* C2: when Alpha Vantage gave no usable price and Tiingo returned a price,
\* the fallback's result is that price with source "Tiingo", yfinance is not
\* called, the calls were made one after the other in chain order, and the
\* reply is 200 with str() of that price.
C2_SecondaryPriceReturned ==
    \A r \in Requests :
        (/\ Len(calls[r]) >= 2
         /\ calls[r][2].provider = "Tiingo"
         /\ calls[r][2].result # NoneV) =>
            /\ PrimaryHasNoPrice(r)
            /\ calls[r][1].result = NoneV
            /\ Called(r) = <<"AlphaVantage", "Tiingo">>
            /\ pc[r] \in {"returned", "done"}
            /\ source[r] = "Tiingo"
            /\ price[r] = calls[r][2].result
            /\ Done(r) => /\ status[r] = 200
                          /\ latest_price[r] = Str(calls[r][2].result.v)

C2_Witness ==
    \E r \in Requests :
        /\ Done(r)
        /\ data[r].kind = "no_global_quote"
        /\ calls[r][2].provider = "Tiingo"
        /\ calls[r][2].raw.last = Str("312.50")
        /\ source[r] = "Tiingo"
        /\ latest_price[r] = Str("312.5")

\* The samples of a request's series at or before its target time.
AtOrBefore(r) == {m \in DOMAIN history[r] : m <= target_time[r]}

\* C3: when the fallback came back from yfinance and the series has a sample
\* at or before target_time, the result is the Close and the timestamp of
\* the latest such sample; no sample after target_time is selected.
C3_LatestSampleAtOrBeforeTarget ==
    \A r \in Requests :
        (pc[r] \in {"returned", "done"} /\ AtOrBefore(r) # {}) =>
            \E m \in AtOrBefore(r) :
                /\ \A n \in AtOrBefore(r) : n <= m
                /\ source[r] = "yfinance"
                /\ price[r] = history[r][m]
                /\ timestamp[r] = Strftime(m)
                /\ \A n \in DOMAIN history[r] :
                        n > target_time[r] => timestamp[r] # Strftime(n)
                /\ Done(r) => latest_price[r] = Str(history[r][m].v)

\* target 09:30, samples at 09:29 and 09:31: 09:29 is selected
C3_Witness ==
    \E r \in Requests :
        /\ Done(r)
        /\ target_time[r] = MarketOpenMinute
        /\ DOMAIN history[r] = {MarketOpenMinute - 1, MarketOpenMinute + 1}
        /\ timestamp[r] = Str("09:29:00 EDT")
        /\ price[r] = history[r][MarketOpenMinute - 1]
        /\ Len(calls[r]) = 3

\* Every provider of the chain was tried and none gave a price.
Exhausted(r) ==
    /\ Done(r)
    /\ PrimaryHasNoPrice(r)
    /\ Len(calls[r]) >= 2
    /\ \A i \in 2 .. Len(calls[r]) - 1 : calls[r][i].result = NoneV
    /\ calls[r][Len(calls[r])].provider = "yfinance"
    /\ AtOrBefore(r) = {}

\* C4: when Alpha Vantage gave no usable price, Tiingo gave none (or was
\* skipped) and the yfinance series is empty or has no sample at or before
\* target_time, the reply is the normal 200 reply with latest_price "N/A".
C4_ExhaustedGivesNA ==
    \A r \in Requests :
        Exhausted(r) =>
            /\ status[r] = 200
            /\ detail[r] = ""
            /\ latest_price[r] = Str("N/A")

C4_Witness ==
    \E r \in Requests :
        /\ Exhausted(r)
        /\ Called(r) = <<"AlphaVantage", "Tiingo", "yfinance">>
        /\ DOMAIN history[r] = {MarketOpenMinute + 1}
        /\ target_time[r] = MarketOpenMinute
        /\ latest_price[r] = Str("N/A")

\* A call failed in transit: network error, timeout, non-2xx status or a
\* body that is no JSON (for yfinance: history() raised).
TransientFailure(c) ==
    c.raw.kind \in {"transport_error", "http_error", "bad_json", "exception"}

\* C5: a transient failure of a provider call gives no price, is followed by
\* a call of the next provider of the chain (yfinance is the last), and the
\* request is never answered with an error status.
C5_TransientFailureAbsorbed ==
    \A r \in Requests :
        \A i \in 1 .. Len(calls[r]) :
            TransientFailure(calls[r][i]) =>
                /\ calls[r][i].result = NoneV
                /\ status[r] # 500
                /\ Done(r) =>
                        \/ Len(calls[r]) > i
                        \/ calls[r][i].provider = "yfinance"

\* The part of C5 the code keeps: a transient failure of Tiingo or of
\* yfinance is absorbed.
C5_FallbackFailureAbsorbed ==
    \A r \in Requests :
        \A i \in 2 .. Len(calls[r]) :
            TransientFailure(calls[r][i]) =>
                /\ calls[r][i].result = NoneV
                /\ status[r] # 500
                /\ Done(r) =>
                        \/ Len(calls[r]) > i
                        \/ calls[r][i].provider = "yfinance"

\* C6: a request fails for a missing credential exactly when the Alpha
\* Vantage key is missing, and then at once, with "API key not found" and no
\* provider called.  Without the Tiingo key Tiingo is never called, and a
\* request that needs the fallback calls yfinance and is answered 200 with
\* what yfinance gave.
C6_MissingCredential ==
    \A r \in Requests :
        /\ (pc[r] # "idle" /\ ~alphaKey) =>
                /\ Done(r)
                /\ status[r] = 500
                /\ detail[r] = "API key not found"
                /\ calls[r] = <<>>
        /\ alphaKey => detail[r] # "API key not found"
        /\ (alphaKey /\ ~tiingoKey) =>
                /\ \A i \in 1 .. Len(calls[r]) : calls[r][i].provider # "Tiingo"
                /\ (Done(r) /\ PrimaryHasNoPrice(r)) =>
                        /\ Called(r) = <<"AlphaVantage", "yfinance">>
                        /\ status[r] = 200
                        /\ source[r] = "yfinance"
                        /\ price[r] = calls[r][2].result
                        /\ latest_price[r] =
                                IF calls[r][2].result = NoneV
                                THEN Str("N/A")
                                ELSE Str(calls[r][2].result.v)

C6_Witness ==
    \E r \in Requests :
        /\ Done(r)
        /\ alphaKey
        /\ ~tiingoKey
        /\ PrimaryHasNoPrice(r)
        /\ Called(r) = <<"AlphaVantage", "yfinance">>
        /\ source[r] = "yfinance"
        /\ latest_price[r] = Str("101.5")

\* A price field that is "N/A", null or absent.
Degenerate(v) == v \in {Missing, NoneV, Str("N/A")}

\* Call c of a request for ticker tk succeeded but for a degenerate price.
DegenerateAnswer(c, tk) ==
    \/ /\ c.provider = "AlphaVantage"
       /\ c.raw.kind = "quote"
       /\ Degenerate(c.raw.price)
    \/ /\ c.provider = "Tiingo"
       /\ c.raw.kind = "list"
       /\ c.raw.ticker.t = "str"
       /\ Lower(c.raw.ticker.v) = Lower(tk)
       /\ c.raw.timestamp # Missing
       /\ Degenerate(c.raw.last)

\* C7: a degenerate price of Alpha Vantage or Tiingo gives no price, the
\* next provider is called, and the reply is 200 with a latest_price that is
\* "N/A" only when no provider gave a price and yfinance was the last tried.
C7_DegeneratePriceFallsThrough ==
    \A r \in Requests :
        \A i \in 1 .. Len(calls[r]) :
            DegenerateAnswer(calls[r][i], ticker[r]) =>
                /\ calls[r][i].result = NoneV
                /\ pc[r] \in {"returned", "done"} => Len(calls[r]) > i
                /\ Done(r) =>
                        /\ status[r] = 200
                        /\ latest_price[r] \notin {NoneV, Missing}
                        /\ latest_price[r] = Str("N/A") =>
                                /\ \A j \in 1 .. Len(calls[r]) :
                                        calls[r][j].result = NoneV
                                /\ calls[r][Len(calls[r])].provider = "yfinance"

C7_Witness ==
    \E r \in Requests :
        /\ Done(r)
        /\ data[r].kind = "quote"
        /\ data[r].price = NoneV
        /\ Called(r) = <<"AlphaVantage", "Tiingo", "yfinance">>
        /\ DegenerateAnswer(calls[r][2], ticker[r])
        /\ calls[r][2].raw.last = Str("N/A")
        /\ source[r] = "yfinance"
        /\ latest_price[r] = Str("99.25")

\* The strings of the model that are decimal numbers.
DecimalStrings == {"312.50", "312.5", "101.5", "99.25"}

\* C8: in every 200 reply latest_price is a string that is a decimal number
\* or "N/A".
C8_LatestPriceDecimalOrNA ==
    \A r \in Requests :
        (Done(r) /\ status[r] = 200) =>
            /\ latest_price[r].t = "str"
            /\ latest_price[r].v \in DecimalStrings \cup {"N/A"}

\* Call c of a request for ticker tk answered for another ticker.
TickerMismatch(c, tk) ==
    \/ /\ c.provider = "AlphaVantage"
       /\ c.raw.kind = "quote"
       /\ Lower(c.raw.symbol) # Lower(tk)
    \/ /\ c.provider = "Tiingo"
       /\ c.raw.kind = "list"
       /\ \/ c.raw.ticker.t # "str"
          \/ Lower(c.raw.ticker.v) # Lower(tk)

\* C9: an answer whose ticker does not match the requested one (compared
\* case-insensitively) gives no price, whichever provider sent it.
C9_MismatchedTickerUnavailable ==
    \A r \in Requests :
        \A i \in 1 .. Len(calls[r]) :
            TickerMismatch(calls[r][i], ticker[r]) => calls[r][i].result = NoneV

\* The part of C9 the code keeps: a Tiingo answer for another ticker gives
\* no price.
C9_TiingoMismatchUnavailable ==
    \A r \in Requests :
        \A i \in 1 .. Len(calls[r]) :
            (calls[r][i].provider = "Tiingo"
                /\ TickerMismatch(calls[r][i], ticker[r])) =>
                    calls[r][i].result = NoneV

\* C10: a request waiting for its fallback to start is never kept waiting
\* by sleeping requests for other tickers alone, however many they are:
\* some executor thread is free or works for a request that is not asleep.
C10_SleepersBlockNoRequest ==
    \A r \in Requests :
        pc[r] = "queued" =>
            ~ /\ Cardinality(Busy) >= MaxWorkers
              /\ \A q \in Busy : pc[q] = "yf_sleep" /\ ticker[q] # ticker[r]

\* A deadline of the caller, in minutes, shorter than the longest wait of
\* the model (FirstMinute to Threshold).  The code sets no deadline.
RequestTimeout == 1

\* C11: a request whose fallback sleeps until market open plus the delay is
\* not left blocked past the caller's deadline: no request is still asleep
\* more than RequestTimeout minutes after its call started.
C11_WaitBoundedByTimeout ==
    \A r \in Requests :
        pc[r] = "yf_sleep" => clock - started[r] <= RequestTimeout

\* Requests r and q ask for the same ticker, every provider both have
\* called gave both the same answer, and both read the same clock values.
SameInputs(r, q) ==
    /\ ticker[r] = ticker[q]
    /\ \A i \in 1 .. Len(calls[r]) : \A j \in 1 .. Len(calls[q]) :
            calls[r][i].provider = calls[q][j].provider =>
                calls[r][i].raw = calls[q][j].raw
    /\ (started[r] # NoTime /\ started[q] # NoTime) =>
            /\ started[r] = started[q]
            /\ now_eastern[r] = now_eastern[q]

DelayedQuote(r) ==
    /\ pc[r] \in {"returned", "done"}
    /\ source[r] = "yfinance"
    /\ price[r] # NoneV

\* C13 as claimed: the sample of every delayed quote is at least
\* DelayMinutes before the time the call of the approximator started, also
\* when the call waited.
C13_DelayedRelativeToStart ==
    \A r \in Requests :
        DelayedQuote(r) =>
            \E m \in DOMAIN history[r] :
                /\ timestamp[r] = Strftime(m)
                /\ m <= started[r] - DelayMinutes

\* C13 as amended: the sample of every delayed quote is at least
\* DelayMinutes before the approximator's last reading of the clock (the
\* start of a call that did not wait, the wake-up of a call that waited),
\* so at least DelayMinutes in the past when the quote is returned; it is
\* at least DelayMinutes before the start when the call did not wait.
C13_DelayedRelativeToLastRead ==
    \A r \in Requests :
        DelayedQuote(r) =>
            \E m \in DOMAIN history[r] :
                /\ timestamp[r] = Strftime(m)
                /\ m <= now_eastern[r] - DelayMinutes
                /\ m + DelayMinutes <= clock
                /\ started[r] >= Threshold => m <= started[r] - DelayMinutes

\* started 09:43, woke 09:45, sample 09:29: fewer than 15 minutes before the
\* start
C13_Witness ==
    \E r \in Requests :
        /\ Done(r)
        /\ DelayedQuote(r)
        /\ started[r] = Threshold - 2
        /\ now_eastern[r] = Threshold
        /\ timestamp[r] = Strftime(MarketOpenMinute - 1)
        /\ MarketOpenMinute - 1 > started[r] - DelayMinutes

\* C14: a call of the approximator sleeps only when it started before
\* market open plus the delay, and only before it has read the clock again;
\* the series is fetched and searched only once the clock and the call's own
\* now_eastern have reached market open plus the delay; past the wait
\* target_time is now_eastern - delay as last read and is not before market
\* open; a call that started at or after the threshold has not waited: its
\* now_eastern is still the one it started with.
C14_WaitThenRecompute ==
    \A r \in Requests :
        /\ pc[r] = "yf_sleep" =>
                /\ started[r] < MarketOpenMinute + DelayMinutes
                /\ now_eastern[r] = started[r]
        /\ pc[r] \in {"yf_fetch", "yf_select"} =>
                /\ clock >= MarketOpenMinute + DelayMinutes
                /\ now_eastern[r] >= MarketOpenMinute + DelayMinutes
        /\ (started[r] # NoTime /\ pc[r] # "yf_sleep") =>
                /\ target_time[r] = now_eastern[r] - DelayMinutes
                /\ target_time[r] >= MarketOpenMinute
                /\ started[r] >= MarketOpenMinute + DelayMinutes =>
                        now_eastern[r] = started[r]
                /\ started[r] < MarketOpenMinute + DelayMinutes =>
                        now_eastern[r] >= MarketOpenMinute + DelayMinutes

\* started 09:43, woke 09:46, target 09:31
C14_Witness ==
    \E r \in Requests :
        /\ Done(r)
        /\ started[r] = Threshold - 2
        /\ now_eastern[r] = Threshold + 1
        /\ target_time[r] = MarketOpenMinute + 1
        /\ source[r] = "yfinance"
        /\ timestamp[r] = Strftime(MarketOpenMinute + 1)

====
